---- MODULE Spec2Model ----
(***************************************************************************)
(* Conditional Permutation Importance (hidimstat/cpi.py).                  *)
(*                                                                         *)
(* One CPI object, the heap of imputation-model objects it refers to, and  *)
(* the caller that invokes fit / predict / score on it.  Arrays are        *)
(* sequences of rows (1-based positions); covariate indices and group keys *)
(* are 0-based as in the source.  A group name is any hashable value: the  *)
(* naturals 0..MaxKey stand for the names.                                 *)
(***************************************************************************)
EXTENDS Integers, Sequences, FiniteSets, TLC

\* ------------------------------------------------------------------ bounds
NSamples == 2
NFeatures == 3
MaxPerm == 2
MaxList == 2
MaxKey == 1
MaxData == 0

\* ----------------------------------------------------------------- helpers
Range(s) == {s[k] : k \in 1..Len(s)}

Min(S) == CHOOSE m \in S : \A o \in S : m <= o

RECURSIVE SortedSeq(_)
SortedSeq(S) == IF S = {} THEN <<>>
                ELSE <<Min(S)>> \o SortedSeq(S \ {Min(S)})

RECURSIVE SumSeq(_)
SumSeq(s) == IF s = <<>> THEN 0 ELSE s[1] + SumSeq(Tail(s))

\* A vector / a matrix with all its entries computed (np.ndarray holds values)
Vec(v) == v \o <<>>
Mat(M) == [i \in 1..Len(M) |-> Vec(M[i])] \o <<>>

n_features(M) == Len(M[1])

\* X[:, cols]
TakeCols(M, cols) ==
    Mat([i \in 1..Len(M) |-> [k \in 1..Len(cols) |-> M[i][cols[k] + 1]]])

\* np.delete(np.arange(X.shape[1]), group_ids)
NonGroupIds(M, cols) == SortedSeq((0..(n_features(M) - 1)) \ Range(cols))

\* np.delete(X, cols, axis=1)
DeleteCols(M, cols) == TakeCols(M, NonGroupIds(M, cols))

\* M[:, ids] = V   (V has one column per entry of ids, later entries win)
AssignCols(M, ids, V) ==
    Mat([i \in 1..Len(M) |->
        [c \in 1..Len(M[i]) |->
            IF (c - 1) \in Range(ids)
            THEN LET k == CHOOSE k \in 1..Len(ids) :
                              /\ ids[k] = c - 1
                              /\ \A l \in (k + 1)..Len(ids) : ids[l] # c - 1
                 IN  V[i][k]
            ELSE M[i][c]]])

MatAdd(A, B) ==
    Mat([i \in 1..Len(A) |-> [k \in 1..Len(A[i]) |-> A[i][k] + B[i][k]]])
MatSub(A, B) ==
    Mat([i \in 1..Len(A) |-> [k \in 1..Len(A[i]) |-> A[i][k] - B[i][k]]])

\* exact rationals for the losses, as unnormalised fractions
Rat(n, d) == [num |-> n, den |-> d]
RatEq(a, b) == a.num * b.den = b.num * a.den
RatSub(a, b) == Rat(a.num * b.den - b.num * a.den, a.den * b.den)
RECURSIVE RatSum(_)
RatSum(s) == IF s = <<>> THEN Rat(0, 1)
             ELSE LET r == RatSum(Tail(s))
                  IN  Rat(s[1].num * r.den + r.num * s[1].den, s[1].den * r.den)
\* np.mean of a non-empty vector of losses
RatMean(s) == LET t == RatSum(s) IN Rat(t.num, t.den * Len(s))

\* ------------------------------------------------------- the caller's data
\* Data sets d \in 0..MaxData: entries of one matrix are pairwise distinct, so
\* a misplaced row or column shows.
DataX(d) == Mat([i \in 1..NSamples |->
                    [c \in 1..NFeatures |-> i * i * c + d * (2 * i + c - 1)]])
DataY(d) == Vec([i \in 1..NSamples |-> i + d])
Datasets == 0..MaxData

\* ------------------------------------------------------------ collaborators
\* The predictive model (already fitted): a fixed linear scorer.
EstimatorPredict(M) ==
    Vec([i \in 1..Len(M) |-> SumSeq([c \in 1..Len(M[i]) |-> c * M[i][c]])])
EstimatorPredictProba(M) ==
    Vec([i \in 1..Len(M) |-> SumSeq([c \in 1..Len(M[i]) |-> c * M[i][c]]) % 2])

\* loss(y_true, y_pred): mean squared error
mean_squared_error(y_true, y_pred) ==
    Rat(SumSeq(Vec([i \in 1..Len(y_true) |->
                      (y_true[i] - y_pred[i]) * (y_true[i] - y_pred[i])])),
        Len(y_true))

\* An imputation model object: unfitted, or fitted for nout target columns
\* with an intercept learnt from the training targets.
Unfitted == [fitted |-> FALSE, nout |-> 0, bias |-> 0]
PreFitted == [fitted |-> TRUE, nout |-> 1, bias |-> 0]

\* estimator.fit(X_minus_j, X_j)
ImputationFit(X_minus_j, X_j) ==
    [fitted |-> TRUE, nout |-> Len(X_j[1]), bias |-> X_j[1][1]]

\* imputation_model.predict(X_minus_j), one row of nout values per sample
ImputationPredict(m, X_minus_j) ==
    Mat([i \in 1..Len(X_minus_j) |->
            [k \in 1..m.nout |-> m.bias + SumSeq(X_minus_j[i])]])

\* sklearn.base.clone: a new unfitted object with the same parameters
clone(m) == Unfitted

\* np.random.RandomState: a generator with a state; every draw advances it.
RngNext(s) == (5 * s + 3) % 4
RngDraw(s, k) == RngNext(s) % k

\* np.random.RandomState(seed) with an integer seed: the state of the new
\* generator
RandomState(seed) == seed % 4

\* RandomState.permutation(n): shuffle of 1..n, position i swapped with a
\* drawn position j <= i, for i = n down to 2.
RECURSIVE Shuffle(_, _, _)
Shuffle(arr, i, s) ==
    IF i < 2 THEN [perm |-> arr, rng |-> s]
    ELSE LET j == 1 + RngDraw(s, i)
             swapped == [arr EXCEPT ![i] = arr[j], ![j] = arr[i]]
         IN  Shuffle(swapped, i - 1, RngNext(s))

\* self.rng.permutation(residual_j): the rows of a copy, shuffled
RngPermutation(residual, s) ==
    LET sh == Shuffle([i \in 1..Len(residual) |-> i], Len(residual), s)
    IN  [rows |-> Mat([i \in 1..Len(residual) |-> residual[sh.perm[i]]]),
         rng |-> sh.rng]

\* ------------------------------------------------------------------- state
VARIABLES
    imputation_model,     \* constructor argument: [is_list, ids] of object ids
    list_imputation_mod,  \* sequence of object ids
    groups,               \* [is_none, map]; map: group key -> covariate indices
    nb_groups,            \* -1 while the attribute does not exist
    n_perm, score_proba, random_state, n_jobs,
    rng,                  \* state of self.rng
    heap,                 \* object id -> imputation model object
    X, y,                 \* the caller's arrays, as they are after the last call
    op, err, ret_type,    \* last call: which method, exception raised, result type
    out,                  \* array returned by the last predict (group -> n_perm predictions)
    out_dict,             \* dictionary returned by the last score
    perm_inputs,          \* group -> matrices handed to the estimator in the last call
    X_arg,                \* the caller's X as it was when the last call started
    rng_arg,              \* self.rng as it was when the last call started
    groups_arg,           \* the groups argument of the constructor
    fit_state             \* "never", "ok" (last fit returned), "failed" (last fit raised)

vars == <<imputation_model, list_imputation_mod, groups, nb_groups, n_perm,
          score_proba, random_state, n_jobs, rng, heap, X, y, op, err, ret_type,
          out, out_dict, perm_inputs, X_arg, rng_arg, groups_arg, fit_state>>

config == <<imputation_model, n_perm, score_proba, random_state, n_jobs, groups_arg>>

\* ------------------------------------------------------ constructor inputs
\* columns a .. b-1
Block(a, b) == [k \in 1..(b - a) |-> a + k - 1]

\* Group dictionaries: the keys are any non-empty set of names; the groups are
\* consecutive blocks of w covariates in the order of the keys, and no group
\* is the whole of X.
GroupMaps ==
    UNION {
      { [key \in K |->
            LET r == CHOOSE r \in 1..Cardinality(K) : SortedSeq(K)[r] = key
            IN  Block((r - 1) * w, r * w)]
        : w \in {w \in 1..(NFeatures - 1) : w * Cardinality(K) <= NFeatures} }
      : K \in (SUBSET (0..MaxKey)) \ {{}} }

NoGroups == [is_none |-> TRUE, map |-> <<>>]
GroupArgs == {NoGroups} \cup {[is_none |-> FALSE, map |-> g] : g \in GroupMaps}

\* imputation_model: one estimator (object 0, not fitted), or a list of 1..MaxList
\* estimators (objects 1..k), handed over unfitted or already fitted.
ImputationArgs ==
    {[is_list |-> FALSE, ids |-> <<0>>]}
    \cup {[is_list |-> TRUE, ids |-> [k \in 1..len |-> k]] : len \in 1..MaxList}

\* CPI.__init__, with a fitted estimator (check_is_fitted passes) and an
\* integer random_state; the generator reaches its other states as the calls
\* draw from it.
Init ==
    /\ imputation_model \in ImputationArgs
    /\ list_imputation_mod = IF imputation_model.is_list
                             THEN imputation_model.ids ELSE <<>>
    /\ heap \in {[id \in Range(imputation_model.ids) |-> m] :
                    m \in IF imputation_model.is_list
                          THEN {Unfitted, PreFitted} ELSE {Unfitted}}
    /\ n_perm \in {1, MaxPerm}
    /\ groups \in GroupArgs
    /\ groups_arg = groups
    /\ nb_groups = -1
    /\ random_state = 0
    /\ score_proba \in BOOLEAN
    /\ n_jobs \in {1, 2}
    /\ rng = RandomState(random_state)
    /\ X = DataX(0) /\ y = DataY(0)
    /\ X_arg = X /\ rng_arg = rng
    /\ op = "init" /\ err = "" /\ ret_type = "none"
    /\ out = <<>> /\ out_dict = <<>> /\ perm_inputs = <<>>
    /\ fit_state = "never"

\* ------------------------------------------------------------------- heap
\* n object ids not in use
FreshIds(used, n) ==
    SubSeq(SortedSeq((0..(Cardinality(used) + n)) \ used), 1, n)

\* objects no reference reaches are dropped
Reachable(h, ids) == [id \in (ids \cap DOMAIN h) |-> h[id]]

\* -------------------------------------------------------------------- fit
\* lines 81-85: the groups and their number
FitGroups(g, Xc) ==
    IF g.is_none
    THEN [is_none |-> FALSE, map |-> [j \in 0..(n_features(Xc) - 1) |-> <<j>>]]
    ELSE g

FitNbGroups(g, Xc) ==
    IF g.is_none THEN n_features(Xc) ELSE Cardinality(DOMAIN g.map)

\* the list filled with the estimator that was passed instead of clones of it
CloneForGroupsNoClone(lst, h, imp, nb) ==
    IF Len(lst) = 0
    THEN [lst |-> [k \in 1..nb |-> imp.ids[1]], heap |-> h]
    ELSE [lst |-> lst, heap |-> h]

\* lines 87-90: one clone of imputation_model per group when no list was given;
\* [lst, heap] after the statement
CloneForGroups(lst, h, imp, nb) ==
    IF Len(lst) = 0
    THEN LET ids == FreshIds(DOMAIN h, nb)
         IN  [lst |-> ids,
              heap |-> [id \in DOMAIN h \cup Range(ids) |->
                           IF id \in DOMAIN h THEN h[id] ELSE clone(h[imp.ids[1]])]]
    ELSE [lst |-> lst, heap |-> h]

\* joblib_fit_one_gp: the estimator object after estimator.fit(X_minus_j, X_j);
\* self.groups[j] raises KeyError when j is no key
JoblibFitOneGp(g, Xc, j) ==
    IF j \notin DOMAIN g.map
    THEN [err |-> "KeyError", model |-> Unfitted]
    ELSE [err |-> "",
          model |-> ImputationFit(DeleteCols(Xc, g.map[j]), TakeCols(Xc, g.map[j]))]

\* n_jobs = 1: the tasks run one after the other on the objects of the list,
\* up to the first that raises
RECURSIVE FitSequential(_, _, _, _, _)
FitSequential(lst, h, g, Xc, j) ==
    IF j >= Len(lst) THEN [err |-> "", heap |-> h, lst |-> lst]
    ELSE LET t == JoblibFitOneGp(g, Xc, j)
         IN  IF t.err # "" THEN [err |-> t.err, heap |-> h, lst |-> lst]
             ELSE FitSequential(lst, [h EXCEPT ![lst[j + 1]] = t.model], g, Xc, j + 1)

\* n_jobs > 1: every task works on a copy of its arguments in a worker process
\* and the fitted copies come back as new objects
FitInWorkers(lst, h, g, Xc) ==
    LET tasks == [k \in 1..Len(lst) |-> JoblibFitOneGp(g, Xc, k - 1)]
        failed == {k \in 1..Len(lst) : tasks[k].err # ""}
        ids == FreshIds(DOMAIN h, Len(lst))
    IN  IF failed # {}
        THEN [err |-> tasks[Min(failed)].err, heap |-> h, lst |-> lst]
        ELSE [err |-> "",
              heap |-> [id \in DOMAIN h \cup Range(ids) |->
                           IF id \in DOMAIN h THEN h[id]
                           ELSE tasks[CHOOSE k \in 1..Len(ids) : ids[k] = id].model],
              lst |-> ids]

\* CPI.fit(X, y)
Fit(d) ==
    LET Xc == DataX(d)
        g == FitGroups(groups, Xc)
        nb == FitNbGroups(groups, Xc)
        cl == CloneForGroups(list_imputation_mod, heap, imputation_model, nb)
    IN  \E r \in {IF n_jobs = 1 THEN FitSequential(cl.lst, cl.heap, g, Xc, 0)
                    ELSE FitInWorkers(cl.lst, cl.heap, g, Xc)} :
        /\ groups' = g
        /\ nb_groups' = nb
        /\ list_imputation_mod' = r.lst
        /\ heap' = Reachable(r.heap, Range(imputation_model.ids) \cup Range(r.lst))
        /\ X' = Xc /\ y' = DataY(d) /\ X_arg' = Xc /\ rng_arg' = rng
        /\ op' = "fit" /\ err' = r.err
        /\ ret_type' = IF r.err = "" THEN "self" ELSE "none"
        /\ fit_state' = IF r.err = "" THEN "ok" ELSE "failed"
        /\ out' = <<>> /\ out_dict' = <<>> /\ perm_inputs' = <<>>
        /\ UNCHANGED <<config, rng>>

\* ---------------------------------------------------------------- predict
\* np.empty_like(X): a new array of the shape of X; every column of it is
\* assigned before it is read
EmptyLike(M) == Mat([i \in 1..Len(M) |-> [c \in 1..Len(M[i]) |-> 0]])

\* self.estimator.predict_proba / predict, lines 159-162 and 203-206
EstimatorOutput(proba, M) ==
    IF proba THEN EstimatorPredictProba(M) ELSE EstimatorPredict(M)

\* the rows of X_j permuted, instead of the residuals around the prediction
PermutedInputRawRows(Xc, X_minus_j, X_j_hat, residual_j, group_ids, non_group_ids, s) ==
    LET p == RngPermutation(MatAdd(X_j_hat, residual_j), s)
        X_perm1 == AssignCols(EmptyLike(Xc), non_group_ids, X_minus_j)
    IN  [X_perm |-> AssignCols(X_perm1, group_ids, p.rows), X |-> Xc, rng |-> p.rng]

\* lines 154-157: the matrix of one permutation; [X_perm, X, rng] after them,
\* X being the caller's array
PermutedInput(Xc, X_minus_j, X_j_hat, residual_j, group_ids, non_group_ids, s) ==
    LET p == RngPermutation(residual_j, s)
        X_j_perm == MatAdd(X_j_hat, p.rows)
        X_perm0 == EmptyLike(Xc)
        X_perm1 == AssignCols(X_perm0, non_group_ids, X_minus_j)
        X_perm2 == AssignCols(X_perm1, group_ids, X_j_perm)
    IN  [X_perm |-> X_perm2, X |-> Xc, rng |-> p.rng]

\* lines 153-163: the loop over the n_perm permutations
RECURSIVE PermLoop(_, _, _, _, _, _, _, _)
PermLoop(k, acc, X_minus_j, X_j_hat, residual_j, group_ids, non_group_ids, proba) ==
    IF k = 0 THEN acc
    ELSE LET st == PermutedInput(acc.X, X_minus_j, X_j_hat, residual_j,
                                 group_ids, non_group_ids, acc.rng)
         IN  PermLoop(k - 1,
                      [X |-> st.X, rng |-> st.rng,
                       list_y_pred_perm |-> Append(acc.list_y_pred_perm,
                                                   EstimatorOutput(proba, st.X_perm)),
                       list_X_perm |-> Append(acc.list_X_perm, st.X_perm)],
                      X_minus_j, X_j_hat, residual_j, group_ids, non_group_ids, proba)

\* joblib_predict_one_gp(imputation_model, X, j) started with generator state s:
\* [err, list_y_pred_perm, list_X_perm, X, rng]
JoblibPredictOneGp(m, Xc, j, s, g, nperm, proba) ==
    LET none == [err |-> "", X |-> Xc, rng |-> s,
                 list_y_pred_perm |-> <<>>, list_X_perm |-> <<>>]
    IN  IF g.is_none THEN [none EXCEPT !.err = "TypeError"]
        ELSE IF j \notin DOMAIN g.map THEN [none EXCEPT !.err = "KeyError"]
        ELSE IF m.nout # Len(g.map[j]) THEN [none EXCEPT !.err = "ValueError"]
        ELSE LET X_j == TakeCols(Xc, g.map[j])
                 X_minus_j == DeleteCols(Xc, g.map[j])
                 X_j_hat == ImputationPredict(m, X_minus_j)
                 residual_j == MatSub(X_j, X_j_hat)
                 acc == PermLoop(nperm, [X |-> Xc, rng |-> s,
                                         list_y_pred_perm |-> <<>>, list_X_perm |-> <<>>],
                                 X_minus_j, X_j_hat, residual_j,
                                 g.map[j], NonGroupIds(Xc, g.map[j]), proba)
             IN  [err |-> "", X |-> acc.X, rng |-> acc.rng,
                  list_y_pred_perm |-> acc.list_y_pred_perm,
                  list_X_perm |-> acc.list_X_perm]

\* The tasks j .. last-1 run one after the other in one process, on the same
\* self, up to the first that raises: [err, X, rng, out, inputs]; out and
\* inputs hold one entry per task run, in task order
RECURSIVE RunTasks(_, _, _, _, _, _, _, _)
RunTasks(j, last, acc, lst, h, g, nperm, proba) ==
    IF j >= last \/ acc.err # "" THEN acc
    ELSE LET t == JoblibPredictOneGp(h[lst[j + 1]], acc.X, j, acc.rng, g, nperm, proba)
         IN  IF t.err # "" THEN [acc EXCEPT !.err = t.err]
             ELSE RunTasks(j + 1, last,
                      [err |-> "", X |-> t.X, rng |-> t.rng,
                       out |-> Append(acc.out, t.list_y_pred_perm),
                       inputs |-> Append(acc.inputs, t.list_X_perm)],
                      lst, h, g, nperm, proba)

NoTaskRun(Xc, s) == [err |-> "", X |-> Xc, rng |-> s, out |-> <<>>, inputs |-> <<>>]

\* Parallel(n_jobs=1): all tasks in the calling process, in order
PredictSequential(Xc, s, lst, h, g, nperm, proba) ==
    RunTasks(0, Len(lst), NoTaskRun(Xc, s), lst, h, g, nperm, proba)

\* the batches, as pairs <<first task, end>>, for the set of indices at which
\* a new batch begins
RECURSIVE Batches(_, _, _)
Batches(first, starts, n) ==
    IF first >= n THEN <<>>
    ELSE LET later == {b \in starts : b > first /\ b < n}
             end == IF later = {} THEN n ELSE Min(later)
         IN  <<(<<first, end>>)>> \o Batches(end, starts, n)

\* results of the batches put back in task order
RECURSIVE Gather(_, _)
Gather(runs, acc) ==
    IF runs = <<>> THEN acc
    ELSE LET r == runs[1]
         IN  IF acc.err # "" THEN acc
             ELSE IF r.err # "" THEN [acc EXCEPT !.err = r.err]
             ELSE Gather(Tail(runs), [acc EXCEPT !.out = acc.out \o r.out,
                                                 !.inputs = acc.inputs \o r.inputs])

\* Parallel(n_jobs>1): the tasks are sent to worker processes in batches of
\* consecutive tasks; each batch is pickled with its own copy of self and of
\* X, so it begins with the generator state of the call and leaves the
\* caller's objects alone
PredictInWorkers(Xc, s, lst, h, g, nperm, proba, starts) ==
    LET bs == Batches(0, starts, Len(lst))
        runs == [k \in 1..Len(bs) |->
                    RunTasks(bs[k][1], bs[k][2], NoTaskRun(Xc, s),
                             lst, h, g, nperm, proba)] \o <<>>
    IN  Gather(runs, NoTaskRun(Xc, s))

\* ways joblib may cut the tasks into batches
BatchStarts == IF n_jobs = 1 THEN {{}}
               ELSE SUBSET (1..(Len(list_imputation_mod) - 1))

\* body of CPI.predict(X): [err, X, rng, out, inputs]
PredictBody(Xc, s, lst, h, g, nperm, proba, njobs, starts) ==
    IF Len(lst) = 0
    THEN [NoTaskRun(Xc, s) EXCEPT !.err = "ValueError"]
    ELSE IF \E k \in 1..Len(lst) : ~h[lst[k]].fitted
    THEN [NoTaskRun(Xc, s) EXCEPT !.err = "NotFittedError"]
    ELSE IF njobs = 1
    THEN PredictSequential(Xc, s, lst, h, g, nperm, proba)
    ELSE PredictInWorkers(Xc, s, lst, h, g, nperm, proba, starts)

\* CPI.predict(X): returns np.stack(out_list, axis=0)
Predict(d, starts) ==
    \E r \in {PredictBody(DataX(d), rng, list_imputation_mod, heap, groups,
                            n_perm, score_proba, n_jobs, starts)} :
        /\ rng' = r.rng
        /\ X' = r.X /\ y' = DataY(d) /\ X_arg' = DataX(d) /\ rng_arg' = rng
        /\ op' = "predict" /\ err' = r.err
        /\ ret_type' = IF r.err = "" THEN "ndarray" ELSE "none"
        /\ out' = IF r.err = "" THEN r.out ELSE <<>>
        /\ perm_inputs' = r.inputs
        /\ out_dict' = <<>>
        /\ UNCHANGED <<config, list_imputation_mod, groups, nb_groups, heap, fit_state>>

\* ------------------------------------------------------------------ score
\* lines 213-218: loss_perm[j], the loss of every permuted prediction of the
\* j-th entry of the array predict returned (keys 0 .. len-1)
LossPerm(yc, y_pred_perm) ==
    [j \in 0..(Len(y_pred_perm) - 1) |->
        Vec([k \in 1..Len(y_pred_perm[j + 1]) |->
                mean_squared_error(yc, y_pred_perm[j + 1][k])])]

\* lines 220-225: [err, importance]; range(self.nb_groups) needs the attribute
\* and loss_perm[j] the key j
Importance(loss_perm, loss_reference, nb) ==
    IF nb = -1 THEN [err |-> "AttributeError", importance |-> <<>>]
    ELSE IF \E j \in 0..(nb - 1) : j \notin DOMAIN loss_perm
    THEN [err |-> "KeyError", importance |-> <<>>]
    ELSE [err |-> "",
          importance |-> Vec([k \in 1..nb |->
                                 RatSub(RatMean(loss_perm[k - 1]), loss_reference)])]

\* CPI.score(X, y)
Score(d, starts) ==
    \E r \in {PredictBody(DataX(d), rng, list_imputation_mod, heap, groups,
                          n_perm, score_proba, n_jobs, starts)} :
    \E loss_reference \in {mean_squared_error(DataY(d),
                               EstimatorOutput(score_proba, DataX(d)))} :
    \E loss_perm \in {LossPerm(DataY(d), r.out)} :
    \E imp \in {IF r.err # "" THEN [err |-> r.err, importance |-> <<>>]
                ELSE Importance(loss_perm, loss_reference, nb_groups)} :
        /\ rng' = r.rng
        /\ X' = r.X /\ y' = DataY(d) /\ X_arg' = DataX(d) /\ rng_arg' = rng
        /\ op' = "score" /\ err' = imp.err
        /\ ret_type' = IF imp.err = "" THEN "dict" ELSE "none"
        /\ out' = <<>>
        /\ perm_inputs' = r.inputs
        /\ out_dict' = IF imp.err = ""
                       THEN [loss_reference |-> loss_reference,
                             loss_perm |-> loss_perm,
                             importance |-> imp.importance]
                       ELSE <<>>
        /\ UNCHANGED <<config, list_imputation_mod, groups, nb_groups, heap, fit_state>>

Next ==
    \/ \E d \in Datasets : Fit(d)
    \/ \E d \in Datasets : \E starts \in BatchStarts : Predict(d, starts)
    \/ \E d \in Datasets : \E starts \in BatchStarts : Score(d, starts)

Spec == Init /\ [][Next]_vars

\* ----------------------------------------------------------------- claims
RowOrders(n) == {f \in [1..n -> 1..n] : \A a, b \in 1..n : f[a] = f[b] => a = b}

IsCall == op \in {"predict", "score"}

\* C1: predict or score called before any call of fit raises an error and
\* returns nothing, however the object was constructed.
C1_RaisesBeforeFit ==
    (fit_state = "never" /\ IsCall) => (err # "" /\ ret_type = "none")

\* C2: what a per-group task of predict computes for group j is what that task
\* computes when it runs alone from the state in which predict was called:
\* it does not depend on the other tasks having run before it.
C2_TasksIndependent ==
    (op = "predict" /\ err = "" /\ fit_state = "ok") =>
        \A k \in 1..Len(out) :
            out[k] = JoblibPredictOneGp(heap[list_imputation_mod[k]], X_arg, k - 1,
                                        rng_arg, groups, n_perm,
                                        score_proba).list_y_pred_perm

\* C3: after a fit that returned, score returns a dictionary: loss_reference is
\* the loss of the estimator's prediction on X, loss_perm has one entry of
\* n_perm losses for each of the nb_groups groups, and importance[j] is the
\* mean of loss_perm[j] minus loss_reference.
C3_ScoreDictionary ==
    (op = "score" /\ fit_state = "ok") =>
        /\ ret_type = "dict"
        /\ out_dict.loss_reference =
               mean_squared_error(y, EstimatorOutput(score_proba, X_arg))
        /\ DOMAIN out_dict.loss_perm = 0..(nb_groups - 1)
        /\ \A j \in DOMAIN out_dict.loss_perm : Len(out_dict.loss_perm[j]) = n_perm
        /\ Len(out_dict.importance) = nb_groups
        /\ \A j \in 0..(nb_groups - 1) :
               RatEq(out_dict.importance[j + 1],
                     RatSub(RatMean(out_dict.loss_perm[j]), out_dict.loss_reference))

\* C4: with groups given as a dictionary of any names and one imputation
\* estimator, fit does not raise, and neither does predict after it.
C4_AnyGroupNames ==
    (~groups_arg.is_none /\ ~imputation_model.is_list) =>
        /\ op = "fit" => err = ""
        /\ (op = "predict" /\ fit_state # "never") => err = ""

\* C5: a single imputation estimator is cloned for each group: once fit has
\* returned, list_imputation_mod holds nb_groups objects, all different, none of
\* them the estimator that was passed, and that estimator is still not fitted.
C5_ClonedPerGroup ==
    (~imputation_model.is_list /\ fit_state = "ok") =>
        /\ Len(list_imputation_mod) = nb_groups
        /\ Cardinality(Range(list_imputation_mod)) = Len(list_imputation_mod)
        /\ imputation_model.ids[1] \notin Range(list_imputation_mod)
        /\ heap[imputation_model.ids[1]] = Unfitted
        /\ \A k \in 1..Len(list_imputation_mod) : heap[list_imputation_mod[k]].fitted

C5_Witness ==
    /\ ~imputation_model.is_list /\ op = "fit" /\ fit_state = "ok"
    /\ Len(list_imputation_mod) >= 2

\* C6: after a fit that returned, there are as many imputation models as
\* groups, for a single estimator and for a list alike.
C6_OneModelPerGroup ==
    fit_state = "ok" => Len(list_imputation_mod) = nb_groups

\* C7: predict returns a dictionary (with the keys loss_reference, loss_perm
\* and importance).
C7_PredictReturnsDict ==
    (op = "predict" /\ err = "" /\ fit_state = "ok") => ret_type = "dict"

C9_SameOutputAgain ==
    [][(fit_state = "ok" /\ op = "predict" /\ err = ""
          /\ op' = "predict" /\ err' = "" /\ X_arg' = X_arg)
          => out' = out]_vars

====
